---- MODULE Spec2Model ----
(***************************************************************************)
(* Model of app.py, the bulk image generator: the text layout functions    *)
(* (load_font, calculate_text_height, draw_text_wrapped) and the batch     *)
(* loop that measures, lays out, draws and archives one image per row.     *)
(*                                                                         *)
(* Conventions.                                                            *)
(*  - A text is a sequence of characters; a character is a one-token       *)
(*    string ("eacute" stands for U+00E9).                                 *)
(*  - Pixel heights and Y positions are floats that are multiples of 0.2   *)
(*    in the code; here they are integers scaled by 10 (names end in 10),  *)
(*    and a line_spacing of 1.0 / 1.2 is 10 / 12.                          *)
(*  - Glyph metrics belong to the font files and to Pillow, which are not  *)
(*    part of the repository: a glyph has an advance in font units         *)
(*    (UnitsPerEm to the em), a text's advance is the sum of its glyphs'   *)
(*    (no kerning), and it scales linearly with the font size.             *)
(*  - The batch loop is one run of the script after the button is pressed; *)
(*    what the script shows (st.error, st.success) is appended to shown.   *)
(***************************************************************************)
EXTENDS Bags, FiniteSets, Integers, Sequences, TLC

\* ------------------------------------------------------------ constants

MAX_WIDTH == 1700

POS_TITLE == <<2100, 300>>

POS_PRONUNCIATION == <<2100, 1000>>

POS_DEFINITION == <<2100, 1300>>

SPACING == 100

FONT_FILES == [normal |-> "Cabin-Variable.ttf", italic |-> "Cabin-Italic-Variable.ttf"]

STYLES ==
  [Title         |-> [size |-> 255, font_file |-> "normal", variation |-> "Bold",
                      pos |-> POS_TITLE],
   Pronunciation |-> [size |-> 116, font_file |-> "italic", variation |-> "Italic",
                      pos |-> POS_PRONUNCIATION],
   Definition    |-> [size |-> 157, font_file |-> "normal", variation |-> "Medium",
                      pos |-> POS_DEFINITION]]

\* the absolute fallback size of the definition's retry
DEF_FALLBACK_SIZE == 130

\* the step of the title's retry
TITLE_RETRY_STEP == 20

\* the line counts above which the title / the definition is retried
TITLE_MAX_LINES == 3

DEF_MAX_LINES == 5

\* the size below which the fit loop stops shrinking
MIN_SIZE == 10

\* ------------------------------------------------------------ bounds

\* rows of the sheet
MaxRows == 2

\* words of a text handed to the layout functions on their own
MaxWords == 3

\* words of a text the fit loop is followed to its end on
MaxLoopWords == 2

\* ------------------------------------------------------------ characters

Letters == {"a", "b", "f", "i", "n", "r", "x", "B", "C", "W", "eacute"}

Digits == {"1"}

\* str.isalnum: Unicode letters and digits, U+00E9 among them
IsAlnum(c) == c \in Letters \cup Digits

\* the characters str.split() and str.strip() treat as whitespace
IsSpace(c) == c \in {" ", "\t"}

\* font units to the em
UnitsPerEm == 1000

\* a glyph's advance in font units
Advance(c) ==
  CASE c = "W" -> 900
    [] c \in {"i", " ", "\t", "/", ":", "-"} -> 250
    [] OTHER -> 500

\* the advance of a text: the sum of its characters' advances, counted as
\* the size of the bag that holds position i of the text Advance(s[i]) times
TextUnits(s) == BagCardinality([i \in 1..Len(s) |-> Advance(s[i])])

\* ------------------------------------------------------------ state

VARIABLES
  fontsAvailable,   \* the font files that ImageFont.truetype can load
  defaultHasSize,   \* whether ImageFont.load_default() has a size attribute
  \* a single call of a layout function
  fn, ftext, fmax_width, fsize0, fline_spacing,
  fpc, fwords, fmax_size, ffont, fresult,
  \* the batch loop
  pc, nrows, index, image_height,
  title_text, pron_text, def_text,
  title_size, def_size,
  m_title, m_def, m_pron,
  total_height10, start_y10,
  drawn, zip_file, shown

envVars == <<fontsAvailable, defaultHasSize>>

fitVars == <<fn, ftext, fmax_width, fsize0, fline_spacing, fpc, fwords, fmax_size, ffont, fresult>>

rowVars == <<title_text, pron_text, def_text, title_size, def_size, m_title, m_def, m_pron,
             total_height10, start_y10, drawn>>

batchVars == <<pc, nrows, index, image_height, zip_file, shown>>

vars == <<envVars, fitVars, rowVars, batchVars>>

\* ------------------------------------------------------------ fonts

\* the size of ImageFont.load_default()
DefaultFontSize == 10

NoFont == [kind |-> "none", size |-> 0, hasSize |-> FALSE, file |-> "", variation |-> ""]

\* load_font: the font file at the size, or the default font when it cannot be
\* loaded; a variation that cannot be set leaves the font as loaded.
load_font(font_file, size, variation) ==
  IF font_file \in fontsAvailable
    THEN [kind |-> "truetype", size |-> size, hasSize |-> TRUE,
          file |-> font_file, variation |-> variation]
    ELSE [kind |-> "default", size |-> IF defaultHasSize THEN DefaultFontSize ELSE 0,
          hasSize |-> defaultHasSize, file |-> "", variation |-> ""]

\* getattr(font, 'size', dflt)
FontSizeOr(font, dflt) == IF font.hasSize THEN font.size ELSE dflt

\* the em a font renders at
FontEm(font) == IF font.kind = "truetype" THEN font.size ELSE DefaultFontSize

\* draw.textlength(s, font), a float, in 1/UnitsPerEm of a pixel
TextLength(s, font) == TextUnits(s) * FontEm(font)

\* bbox[2] - bbox[0] of draw.textbbox((0, 0), s, font), whole pixels
BBoxWidth(s, font) == (TextUnits(s) * FontEm(font)) \div UnitsPerEm

\* w <= max_width for w = draw.textlength(s, font)
FitsWidth(s, font, max_width) == TextLength(s, font) <= max_width * UnitsPerEm

\* ------------------------------------------------------------ str methods

\* the n-th smallest element of a set of numbers
NthOf(S, n) == CHOOSE i \in S : Cardinality({j \in S : j < i}) = n - 1

\* text.split(' ') in place of text.split(): the pieces between single spaces,
\* empty ones kept
SplitKeepEmpty(s) ==
  LET seps == {i \in 1..Len(s) : s[i] = " "}
      n == Cardinality(seps)
      cut(k) == IF k = 0 THEN 0 ELSE IF k = n + 1 THEN Len(s) + 1 ELSE NthOf(seps, k)
  IN [k \in 1..(n + 1) |-> SubSeq(s, cut(k - 1) + 1, cut(k) - 1)]

\* where the words of a text start: a character that is no whitespace, at the
\* start or after whitespace
WordStarts(s) == {i \in 1..Len(s) : ~IsSpace(s[i]) /\ (i = 1 \/ IsSpace(s[i - 1]))}

\* where the words of a text end: a character that is no whitespace, at the
\* end or before whitespace
WordEnds(s) == {i \in 1..Len(s) : ~IsSpace(s[i]) /\ (i = Len(s) \/ IsSpace(s[i + 1]))}

\* text.split(): the maximal runs of characters that are no whitespace, the
\* n-th from the n-th start to the n-th end
Split(s) ==
  LET starts == WordStarts(s)
      ends == WordEnds(s)
  IN [n \in 1..Cardinality(starts) |-> SubSeq(s, NthOf(starts, n), NthOf(ends, n))]

RECURSIVE Join(_)
\* ' '.join(ws)
Join(ws) ==
  IF ws = <<>> THEN <<>>
  ELSE IF Len(ws) = 1 THEN ws[1]
  ELSE ws[1] \o <<" ">> \o Join(Tail(ws))

RECURSIVE MaxByLen(_, _)
MaxByLen(ws, best) ==
  IF ws = <<>> THEN best
  ELSE MaxByLen(Tail(ws), IF Len(Head(ws)) > Len(best) THEN Head(ws) ELSE best)

\* max(words, key=len): the first of the words with the most characters
LongestWord(words) == MaxByLen(Tail(words), Head(words))

RECURSIVE LStrip(_)
LStrip(s) == IF s # <<>> /\ IsSpace(Head(s)) THEN LStrip(Tail(s)) ELSE s

RECURSIVE RStrip(_)
RStrip(s) ==
  IF s # <<>> /\ IsSpace(s[Len(s)]) THEN RStrip(SubSeq(s, 1, Len(s) - 1)) ELSE s

\* s.strip()
Strip(s) == RStrip(LStrip(s))

\* ------------------------------------------------------------ layout functions

\* max_size = int(max_size * 0.9)
ShrinkSize(max_size) == (max_size * 9) \div 10

\* a fit loop without the floor of 10
FitCondNoFloor(longest_word, font, max_width, max_size) ==
  BBoxWidth(longest_word, font) > max_width /\ max_size > 0

\* the condition of the fit loop: (bbox[2] - bbox[0]) > max_width and max_size > 10
FitCond(longest_word, font, max_width, max_size) ==
  BBoxWidth(longest_word, font) > max_width /\ max_size > MIN_SIZE

RECURSIVE FitLoop(_, _, _, _, _)
\* the fit loop: the size it ends at and the font loaded at that size
FitLoop(longest_word, font_file, max_size, variation, max_width) ==
  LET font == load_font(font_file, max_size, variation) IN
  IF FitCond(longest_word, font, max_width, max_size)
    THEN FitLoop(longest_word, font_file, ShrinkSize(max_size), variation, max_width)
    ELSE [max_size |-> max_size, font |-> font]

\* a line fill that measures the word alone, not the line with the word added
WrapAcceptsWordOnly(current_line, word, font, max_width) ==
  FitsWidth(word, font, max_width)

\* the test of the greedy line fill: w <= max_width for the line with the word added
WrapAccepts(current_line, word, font, max_width) ==
  FitsWidth(Join(Append(current_line, word)), font, max_width)

RECURSIVE WrapFrom(_, _, _, _, _)
WrapFrom(words, current_line, lines, font, max_width) ==
  IF words = <<>>
    THEN IF current_line # <<>> THEN Append(lines, Join(current_line)) ELSE lines
    ELSE IF WrapAccepts(current_line, Head(words), font, max_width)
      THEN WrapFrom(Tail(words), Append(current_line, Head(words)), lines, font, max_width)
      ELSE WrapFrom(Tail(words), <<Head(words)>>,
                    IF current_line # <<>> THEN Append(lines, Join(current_line)) ELSE lines,
                    font, max_width)

\* the greedy line fill over the words
WrapLines(words, font, max_width) == WrapFrom(words, <<>>, <<>>, font, max_width)

\* calculate_text_height: (height, font, line count), the height scaled by 10
calculate_text_height(text, font_file, max_size, variation, max_width, wrapped, line_spacing) ==
  IF wrapped
    THEN LET words == Split(text) IN
         IF words = <<>>
           THEN [height10 |-> 0, font |-> load_font(font_file, max_size, variation),
                 line_count |-> 0]
           ELSE LET fit   == FitLoop(LongestWord(words), font_file, max_size, variation, max_width)
                    lines == WrapLines(words, fit.font, max_width)
                    line_height10 == FontSizeOr(fit.font, fit.max_size) * line_spacing
                IN [height10 |-> Len(lines) * line_height10, font |-> fit.font,
                    line_count |-> Len(lines)]
    ELSE LET font == load_font(font_file, max_size, variation) IN
         [height10 |-> FontSizeOr(font, max_size) * 12, font |-> font, line_count |-> 1]

\* textwrap.wrap(text, width=width_in_chars) raises ValueError for a width <= 0:
\* width_in_chars = int(max_width / (avg_char_width * 0.8)), avg_char_width the
\* advance of "x" (a ZeroDivisionError when that is 0)
TextwrapRaises(font, max_width) ==
  LET d == TextLength(<<"x">>, font) * 8 IN
  d = 0 \/ (max_width * UnitsPerEm * 10) \div d <= 0

\* the lines draw_text_wrapped draws from y on: <<x, y, line>>, y scaled by 10
DrawLines(lines, x, y10, line_height10) ==
  [i \in 1..Len(lines) |-> [x |-> x, y10 |-> y10 + (i - 1) * line_height10, line |-> lines[i]]]

NoDraw == [raised |-> FALSE, max_size |-> 0, font |-> NoFont, texts |-> <<>>,
           y10 |-> 0, end_y10 |-> 0]

\* draw_text_wrapped: the draw.text calls made (texts), the size and font they
\* are made with, y before the first line and after the last; or the exception raised
draw_text_wrapped(text, pos, max_width, font_file, max_size, variation, line_spacing) ==
  LET words == Split(text) IN
  IF words = <<>>
    THEN [NoDraw EXCEPT !.max_size = max_size,
                        !.font = load_font(font_file, max_size, variation),
                        !.y10 = pos[2], !.end_y10 = pos[2]]
    ELSE LET fit == FitLoop(LongestWord(words), font_file, max_size, variation, max_width) IN
         IF TextwrapRaises(fit.font, max_width)
           THEN [NoDraw EXCEPT !.raised = TRUE, !.max_size = fit.max_size, !.font = fit.font,
                               !.y10 = pos[2], !.end_y10 = pos[2]]
           ELSE LET final_lines == WrapLines(words, fit.font, max_width)
                    line_height10 == FontSizeOr(fit.font, fit.max_size) * line_spacing
                IN [raised |-> FALSE, max_size |-> fit.max_size, font |-> fit.font,
                    texts |-> DrawLines(final_lines, pos[1], pos[2], line_height10),
                    y10 |-> pos[2],
                    end_y10 |-> pos[2] + Len(final_lines) * line_height10]

\* ------------------------------------------------------------ one call of a layout function

\* the words the texts of a single call are made of
FitVocabulary == {[i \in 1..9 |-> "i"], [i \in 1..8 |-> "W"], <<"a">>}

RECURSIVE SeqsUpTo(_, _)
SeqsUpTo(S, n) ==
  IF n = 0 THEN {<<>>}
  ELSE LET shorter == SeqsUpTo(S, n - 1) IN
       shorter \cup {Append(ws, w) : ws \in {x \in shorter : Len(x) = n - 1}, w \in S}

\* texts: up to MaxWords words joined by single spaces, and texts whose
\* whitespace is not a single separating space
FitTexts ==
  {Join(ws) : ws \in SeqsUpTo(FitVocabulary, MaxWords)}
    \cup {<<" ">>, <<" ", "a", " ", "\t", "a", " ">>}

FitWidths == {0, 300, MAX_WIDTH}

FitSizes == {MIN_SIZE, MIN_SIZE + 1, STYLES.Pronunciation.size, DEF_FALLBACK_SIZE,
             STYLES.Definition.size, STYLES.Title.size - TITLE_RETRY_STEP, STYLES.Title.size}

FitFunctions == {"calculate_text_height", "draw_text_wrapped"}

NoResult == [lines |-> <<>>, height10 |-> 0, line_count |-> 0]

NoMeasure == [height10 |-> 0, font |-> NoFont, line_count |-> 0]

Fields == {"Title", "Pronunciation", "Definition"}

\* the batch loop before the button is pressed
BatchIdle(at) ==
  /\ pc = at /\ nrows = 0 /\ index = 0 /\ image_height = 0
  /\ title_text = <<>> /\ pron_text = <<>> /\ def_text = <<>>
  /\ title_size = 0 /\ def_size = 0
  /\ m_title = NoMeasure /\ m_def = NoMeasure /\ m_pron = NoMeasure
  /\ total_height10 = 0 /\ start_y10 = 0
  /\ drawn = [f \in Fields |-> NoDraw]
  /\ zip_file = <<>> /\ shown = <<>>

\* a call of calculate_text_height(draw, text, 'normal', size, 'Bold', max_width,
\* wrapped=True, line_spacing) or of draw_text_wrapped with the same arguments
InitFit ==
  /\ fontsAvailable \in {{}, {FONT_FILES.normal, FONT_FILES.italic}}
  /\ defaultHasSize \in BOOLEAN
  /\ fn \in FitFunctions
  /\ ftext \in FitTexts
  /\ fmax_width \in FitWidths
  /\ fsize0 \in FitSizes
  /\ fline_spacing \in {10, 12}
  /\ fpc = "call"
  /\ fwords = <<>>
  /\ fmax_size = fsize0
  /\ ffont = NoFont
  /\ fresult = NoResult
  /\ BatchIdle("off")

\* font = load_font(...); words = text.split(); if not words: return
FitEnter ==
  /\ fpc = "call"
  /\ ffont' = load_font(FONT_FILES.normal, fmax_size, "Bold")
  /\ fwords' = Split(ftext)
  /\ fpc' = IF Split(ftext) = <<>> THEN "done" ELSE "loop"
  /\ UNCHANGED <<fn, ftext, fmax_width, fsize0, fline_spacing, fmax_size, fresult>>
  /\ UNCHANGED <<envVars, rowVars, batchVars>>

\* one iteration of the fit loop
FitShrink ==
  /\ fpc = "loop"
  /\ FitCond(LongestWord(fwords), ffont, fmax_width, fmax_size)
  /\ fmax_size' = ShrinkSize(fmax_size)
  /\ ffont' = load_font(FONT_FILES.normal, ShrinkSize(fmax_size), "Bold")
  /\ UNCHANGED <<fn, ftext, fmax_width, fsize0, fline_spacing, fpc, fwords, fresult>>
  /\ UNCHANGED <<envVars, rowVars, batchVars>>

\* the fit loop ends; the rest of the function: the line fill and the result
FitWrap ==
  /\ fpc = "loop"
  /\ ~FitCond(LongestWord(fwords), ffont, fmax_width, fmax_size)
  /\ IF fn = "draw_text_wrapped" /\ TextwrapRaises(ffont, fmax_width)
       THEN fpc' = "raised" /\ UNCHANGED fresult
       ELSE LET lines == WrapLines(fwords, ffont, fmax_width)
                line_height10 == FontSizeOr(ffont, fmax_size) * fline_spacing
            IN /\ fpc' = "done"
               /\ fresult' = [lines |-> lines, height10 |-> Len(lines) * line_height10,
                              line_count |-> Len(lines)]
  /\ UNCHANGED <<fn, ftext, fmax_width, fsize0, fline_spacing, fwords, fmax_size, ffont>>
  /\ UNCHANGED <<envVars, rowVars, batchVars>>

NextFit == FitEnter \/ FitShrink \/ FitWrap

SpecFit == InitFit /\ [][NextFit]_vars

\* the calls the fit loop is followed to its end in; the function runs to its
\* end, nothing suspends it
InitFitLoop == InitFit /\ fline_spacing = 12 /\ Len(Split(ftext)) <= MaxLoopWords

SpecFitFair == InitFitLoop /\ [][NextFit]_vars /\ WF_vars(NextFit)

\* ------------------------------------------------------------ the batch loop

Rep(c, n) == [i \in 1..n |-> c]

\* a cell of the sheet as pandas reads it: a text, or NaN for an empty cell
Cell(text) == [na |-> FALSE, text |-> text]

NaN == [na |-> TRUE, text |-> <<>>]

\* str(row[...])
Str(cell) == IF cell.na THEN <<"n", "a", "n">> ELSE cell.text

CafeTitle == <<"C", "a", "f", "eacute", "/", "B", "a", "r", ":", " ", "#", "1">>

TitleCells ==
  {Cell(CafeTitle),
   Cell(<<" ">>),
   Cell(<<" ", "a", "-", "b", "_", " ", "/">>),
   Cell(Join(Rep(<<"W", "W", "W", "a", "i">>, 4))),
   Cell(Join(Rep(Rep("W", 4), 4))),
   Cell(Join(Rep(Rep("W", 9), 4)))}

PronCells == {Cell(<<" ">>), NaN, Cell(Rep("W", 17))}

DefCells ==
  {Cell(<<" ">>),
   Cell(<<"a", " ", "b">>),
   Cell(Join(Rep(Rep("W", 6), 6))),
   Cell(Join(Rep(Rep("W", 15), 6)))}

\* template_image.size[1]
CanvasHeights == {2000}

\* the font files are deployed with the app, or are not
Init ==
  /\ fontsAvailable \in {{}, {FONT_FILES.normal, FONT_FILES.italic}}
  /\ defaultHasSize \in BOOLEAN
  /\ fn = "none" /\ ftext = <<>> /\ fmax_width = 0 /\ fsize0 = 0 /\ fline_spacing = 0
  /\ fpc = "off" /\ fwords = <<>> /\ fmax_size = 0 /\ ffont = NoFont /\ fresult = NoResult
  /\ BatchIdle("idle")

\* the button is pressed with a URL and a template: the sheet id is looked for in
\* the URL, the sheet and the template are loaded
Generate ==
  /\ pc = "idle"
  /\ \/ /\ pc' = "stopped"
        /\ shown' = Append(shown, "Invalid Google Sheet URL")
        /\ UNCHANGED <<nrows, image_height>>
     \/ /\ pc' = "error"
        /\ shown' = Append(shown, "An error occurred")
        /\ UNCHANGED <<nrows, image_height>>
     \/ /\ pc' = "loop"
        /\ nrows' \in 0..MaxRows
        /\ image_height' \in CanvasHeights
        /\ shown' = Append(shown, "Loaded rows")
  /\ UNCHANGED <<index, zip_file>>
  /\ UNCHANGED <<envVars, fitVars, rowVars>>

\* the next row of df.iterrows(): a fresh text layer, the three cells as strings
NextRow ==
  /\ pc = "loop"
  /\ index < nrows
  /\ \E t \in TitleCells, p \in PronCells, d \in DefCells :
       /\ title_text' = Str(t)
       /\ pron_text' = Str(p)
       /\ def_text' = Str(d)
  /\ drawn' = [f \in Fields |-> NoDraw]
  \* the measures of the row before are dead: each is assigned before it is read
  /\ title_size' = 0 /\ def_size' = 0
  /\ m_title' = NoMeasure /\ m_def' = NoMeasure /\ m_pron' = NoMeasure
  /\ total_height10' = 0 /\ start_y10' = 0
  /\ pc' = "title"
  /\ UNCHANGED <<nrows, index, image_height, zip_file, shown>>
  /\ UNCHANGED <<envVars, fitVars>>

\* title_size = STYLES['Title']['size'] and the first measure of the title
MeasureTitle ==
  /\ pc = "title"
  /\ title_size' = STYLES.Title.size
  /\ m_title' = calculate_text_height(title_text, FONT_FILES.normal, STYLES.Title.size,
                                      "Bold", MAX_WIDTH, TRUE, 10)
  /\ pc' = "title_retry"
  /\ UNCHANGED <<title_text, pron_text, def_text, def_size, m_def, m_pron,
                 total_height10, start_y10, drawn>>
  /\ UNCHANGED <<nrows, index, image_height, zip_file, shown>>
  /\ UNCHANGED <<envVars, fitVars>>

\* a title retry that shrinks by 10% in place of the step of 20
RetryTitleTenPercent ==
  /\ pc = "title_retry"
  /\ IF m_title.line_count > TITLE_MAX_LINES
       THEN /\ title_size' = ShrinkSize(title_size)
            /\ m_title' = calculate_text_height(title_text, FONT_FILES.normal,
                                                ShrinkSize(title_size),
                                                "Bold", MAX_WIDTH, TRUE, 10)
       ELSE UNCHANGED <<title_size, m_title>>
  /\ pc' = "def"
  /\ UNCHANGED <<title_text, pron_text, def_text, def_size, m_def, m_pron,
                 total_height10, start_y10, drawn>>
  /\ UNCHANGED <<nrows, index, image_height, zip_file, shown>>
  /\ UNCHANGED <<envVars, fitVars>>

\* if title_lines > 3: title_size -= 20 and the title is measured again
RetryTitle ==
  /\ pc = "title_retry"
  /\ IF m_title.line_count > TITLE_MAX_LINES
       THEN /\ title_size' = title_size - TITLE_RETRY_STEP
            /\ m_title' = calculate_text_height(title_text, FONT_FILES.normal,
                                                title_size - TITLE_RETRY_STEP,
                                                "Bold", MAX_WIDTH, TRUE, 10)
       ELSE UNCHANGED <<title_size, m_title>>
  /\ pc' = "def"
  /\ UNCHANGED <<title_text, pron_text, def_text, def_size, m_def, m_pron,
                 total_height10, start_y10, drawn>>
  /\ UNCHANGED <<nrows, index, image_height, zip_file, shown>>
  /\ UNCHANGED <<envVars, fitVars>>

\* def_size = STYLES['Definition']['size'] and the first measure of the definition
MeasureDef ==
  /\ pc = "def"
  /\ def_size' = STYLES.Definition.size
  /\ m_def' = calculate_text_height(def_text, FONT_FILES.normal, STYLES.Definition.size,
                                    "Medium", MAX_WIDTH, TRUE, 12)
  /\ pc' = "def_retry"
  /\ UNCHANGED <<title_text, pron_text, def_text, title_size, m_title, m_pron,
                 total_height10, start_y10, drawn>>
  /\ UNCHANGED <<nrows, index, image_height, zip_file, shown>>
  /\ UNCHANGED <<envVars, fitVars>>

\* a definition retry that steps down by 20, as the title's does, in place of
\* the absolute fallback
RetryDefStep ==
  /\ pc = "def_retry"
  /\ IF m_def.line_count > DEF_MAX_LINES
       THEN /\ def_size' = def_size - TITLE_RETRY_STEP
            /\ m_def' = calculate_text_height(def_text, FONT_FILES.normal,
                                              def_size - TITLE_RETRY_STEP,
                                              "Medium", MAX_WIDTH, TRUE, 12)
       ELSE UNCHANGED <<def_size, m_def>>
  /\ pc' = "pron"
  /\ UNCHANGED <<title_text, pron_text, def_text, title_size, m_title, m_pron,
                 total_height10, start_y10, drawn>>
  /\ UNCHANGED <<nrows, index, image_height, zip_file, shown>>
  /\ UNCHANGED <<envVars, fitVars>>

\* if line_count > 5: def_size = 130 and the definition is measured again
RetryDef ==
  /\ pc = "def_retry"
  /\ IF m_def.line_count > DEF_MAX_LINES
       THEN /\ def_size' = DEF_FALLBACK_SIZE
            /\ m_def' = calculate_text_height(def_text, FONT_FILES.normal, DEF_FALLBACK_SIZE,
                                              "Medium", MAX_WIDTH, TRUE, 12)
       ELSE UNCHANGED <<def_size, m_def>>
  /\ pc' = "pron"
  /\ UNCHANGED <<title_text, pron_text, def_text, title_size, m_title, m_pron,
                 total_height10, start_y10, drawn>>
  /\ UNCHANGED <<nrows, index, image_height, zip_file, shown>>
  /\ UNCHANGED <<envVars, fitVars>>

\* the one measure of the pronunciation
MeasurePron ==
  /\ pc = "pron"
  /\ m_pron' = calculate_text_height(pron_text, FONT_FILES.italic, STYLES.Pronunciation.size,
                                     "Italic", MAX_WIDTH, TRUE, 12)
  /\ pc' = "layout"
  /\ UNCHANGED <<title_text, pron_text, def_text, title_size, def_size, m_title, m_def,
                 total_height10, start_y10, drawn>>
  /\ UNCHANGED <<nrows, index, image_height, zip_file, shown>>
  /\ UNCHANGED <<envVars, fitVars>>

\* a total that counts one gap only
TotalHeight10OneGap(h_title, h_pron, h_def) == h_title + SPACING * 10 + h_pron + h_def

\* total_height = h_title + SPACING + h_pron + SPACING + h_def
TotalHeight10(h_title, h_pron, h_def) == h_title + SPACING * 10 + h_pron + SPACING * 10 + h_def

\* start_y = (image_height - total_height) / 2
StartY10(height, total10) == (height * 10 - total10) \div 2

Layout ==
  /\ pc = "layout"
  /\ total_height10' = TotalHeight10(m_title.height10, m_pron.height10, m_def.height10)
  /\ start_y10' = StartY10(image_height,
                           TotalHeight10(m_title.height10, m_pron.height10, m_def.height10))
  /\ pc' = "draw_title"
  /\ UNCHANGED <<title_text, pron_text, def_text, title_size, def_size, m_title, m_def, m_pron,
                 drawn>>
  /\ UNCHANGED <<nrows, index, image_height, zip_file, shown>>
  /\ UNCHANGED <<envVars, fitVars>>

\* current_y of the pronunciation: start_y + h_title + SPACING
PronY10 == start_y10 + m_title.height10 + SPACING * 10

\* current_y of the definition: current_y + h_pron + SPACING
DefY10 == PronY10 + m_pron.height10 + SPACING * 10

\* a call of draw_text_wrapped in the row: the lines are drawn, or its exception
\* reaches the handler of the batch
DrawField(field, at, next, call) ==
  /\ pc = at
  /\ IF call.raised
       THEN /\ pc' = "error"
            /\ shown' = Append(shown, "An error occurred")
            /\ UNCHANGED drawn
       ELSE /\ pc' = next
            /\ drawn' = [drawn EXCEPT ![field] = call]
            /\ UNCHANGED shown
  /\ UNCHANGED <<title_text, pron_text, def_text, title_size, def_size, m_title, m_def, m_pron,
                 total_height10, start_y10>>
  /\ UNCHANGED <<nrows, index, image_height, zip_file>>
  /\ UNCHANGED <<envVars, fitVars>>

\* a title drawn with the default line_spacing (1.2) in place of the 1.0 it was
\* measured with
DrawTitleDefaultSpacing ==
  DrawField("Title", "draw_title", "draw_pron",
            draw_text_wrapped(title_text, <<POS_TITLE[1], start_y10>>, MAX_WIDTH,
                              FONT_FILES.normal, FontSizeOr(m_title.font, title_size),
                              "Bold", 12))

DrawTitle ==
  DrawField("Title", "draw_title", "draw_pron",
            draw_text_wrapped(title_text, <<POS_TITLE[1], start_y10>>, MAX_WIDTH,
                              FONT_FILES.normal, FontSizeOr(m_title.font, title_size),
                              "Bold", 10))

DrawPron ==
  DrawField("Pronunciation", "draw_pron", "draw_def",
            draw_text_wrapped(pron_text, <<POS_PRONUNCIATION[1], PronY10>>, MAX_WIDTH,
                              FONT_FILES.italic,
                              FontSizeOr(m_pron.font, STYLES.Pronunciation.size),
                              "Italic", 12))

DrawDef ==
  DrawField("Definition", "draw_def", "save",
            draw_text_wrapped(def_text, <<POS_DEFINITION[1], DefY10>>, MAX_WIDTH,
                              FONT_FILES.normal, FontSizeOr(m_def.font, def_size),
                              "Medium", 12))

\* c.isalnum() or c in (' ', '-', '_')
Kept(c) == IsAlnum(c) \/ c \in {" ", "-", "_"}

RECURSIVE KeepBetween(_, _, _)
\* the kept characters of s[lo..hi], joined by halves
KeepBetween(s, lo, hi) ==
  IF lo > hi THEN <<>>
  ELSE IF lo = hi THEN (IF Kept(s[lo]) THEN <<s[lo]>> ELSE <<>>)
  ELSE KeepBetween(s, lo, (lo + hi) \div 2) \o KeepBetween(s, (lo + hi) \div 2 + 1, hi)

\* "".join([c for c in title_text if ...])
KeepChars(s) == KeepBetween(s, 1, Len(s))

\* a safe_name that is not stripped
SafeNameNoStrip(title) == KeepChars(title)

\* safe_name
SafeName(title) == Strip(KeepChars(title))

\* f"{safe_name}.png"
EntryName(safe_name) == safe_name \o <<".", "p", "n", "g">>

\* the image is composited and saved, and written to the archive under the
\* sanitized title; the progress bar moves to (index + 1) / len(df)
Save ==
  /\ pc = "save"
  /\ zip_file' = Append(zip_file, EntryName(SafeName(title_text)))
  /\ index' = index + 1
  /\ pc' = "loop"
  /\ UNCHANGED <<nrows, image_height, shown>>
  /\ UNCHANGED <<envVars, fitVars, rowVars>>

\* the loop is over: the archive is closed and offered for download
Finish ==
  /\ pc = "loop"
  /\ index = nrows
  /\ pc' = "done"
  /\ shown' = Append(shown, "Processing Complete!")
  /\ UNCHANGED <<nrows, index, image_height, zip_file>>
  /\ UNCHANGED <<envVars, fitVars, rowVars>>

\* the steps of a row, in which a call may raise
RowSteps == {"title", "title_retry", "def", "def_retry", "pron", "layout",
             "draw_title", "draw_pron", "draw_def", "save"}

\* an exception caught per row: the row is skipped and the loop goes on
RowFailsSkipsRow ==
  /\ pc \in RowSteps
  /\ pc' = "loop"
  /\ index' = index + 1
  /\ UNCHANGED <<nrows, image_height, zip_file, shown>>
  /\ UNCHANGED <<envVars, fitVars, rowVars>>

\* an exception raised in a step of the row: no function of the row catches it,
\* the with block closes the archive, the handler of the batch shows the error
RowFails ==
  /\ pc \in RowSteps
  /\ pc' = "error"
  /\ shown' = Append(shown, "An error occurred")
  /\ UNCHANGED <<nrows, index, image_height, zip_file>>
  /\ UNCHANGED <<envVars, fitVars, rowVars>>

Next ==
  \/ Generate \/ NextRow
  \/ MeasureTitle \/ RetryTitle \/ MeasureDef \/ RetryDef \/ MeasurePron
  \/ Layout \/ DrawTitle \/ DrawPron \/ DrawDef
  \/ Save \/ Finish \/ RowFails

Spec == Init /\ [][Next]_vars

\* ------------------------------------------------------------ properties: one call

\* the stepped fit loop and the function computed at once agree
StepsAgree ==
  (fpc = "done" /\ fn = "calculate_text_height") =>
    LET r == calculate_text_height(ftext, FONT_FILES.normal, fsize0, "Bold", fmax_width,
                                   TRUE, fline_spacing)
    IN /\ r.line_count = fresult.line_count
       /\ r.height10 = fresult.height10
       /\ r.font = ffont

\* C1: when the function returns for a non-empty text, every word of the text
\* (so the widest one) is rendered no wider than the maximum width at the size
\* the fit loop resolved, or that size is 10 or below.
C1_WordWidthGuarantee ==
  (fpc = "done" /\ fwords # <<>>) =>
    \/ \A i \in 1..Len(fwords) : BBoxWidth(fwords[i], ffont) <= fmax_width
    \/ fmax_size <= 10

\* C4: every line the greedy line fill produces is no wider than the maximum
\* width at the resolved font, except a line of a single word that alone is
\* wider; so every line of two or more words fits.
C4_WrapCorrectness ==
  fpc = "done" =>
    \A i \in 1..Len(fresult.lines) :
      LET line == fresult.lines[i] IN
      /\ Len(Split(line)) >= 2 => TextLength(line, ffont) <= fmax_width * UnitsPerEm
      /\ \/ TextLength(line, ffont) <= fmax_width * UnitsPerEm
         \/ /\ Len(Split(line)) = 1
            /\ TextLength(Split(line)[1], ffont) > fmax_width * UnitsPerEm

\* a call that wrapped into a line of two words and a line of one word that is
\* wider than the maximum width
C4_Witness ==
  /\ fpc = "done"
  /\ \E i \in 1..Len(fresult.lines) : Len(Split(fresult.lines[i])) >= 2
  /\ \E i \in 1..Len(fresult.lines) :
       /\ Len(Split(fresult.lines[i])) = 1
       /\ TextLength(fresult.lines[i], ffont) > fmax_width * UnitsPerEm

\* C10: the size of the fit loop stays within 9..s0, every iteration strictly
\* decreases it, and the function reaches its end (also when no size makes the
\* word fit).
C10_ShrinkTerminates ==
  /\ [](fpc # "off" => (9 <= fmax_size /\ fmax_size <= fsize0))
  /\ [][(fmax_size' # fmax_size \/ (fpc = "loop" /\ fpc' = "loop"))
        => (fpc = "loop" /\ fmax_size' < fmax_size)]_vars
  /\ <>(fpc \in {"done", "raised"})

\* a call whose word fits at no size: the loop went from 255 down to 9
C10_Witness ==
  /\ fpc = "done"
  /\ fsize0 = 255
  /\ fmax_size = 9
  /\ BBoxWidth(LongestWord(fwords), ffont) > fmax_width

\* ------------------------------------------------------------ properties: the batch loop

Measured(m) == m.font.kind # "none"

WasDrawn(field) == drawn[field].font.kind # "none"

LaidOut == total_height10 > 0

OnlyWhitespace(text) == \A i \in 1..Len(text) : text[i] \in {" ", "\t"}

\* the lines of a draw, without their positions
LinesOf(d) == [i \in 1..Len(d.texts) |-> d.texts[i].line]

\* the font files load and the word fits the maximum width at the size
FitsAt(word, font_file, size) ==
  /\ font_file \in fontsAvailable
  /\ TextUnits(word) * size < (MAX_WIDTH + 1) * UnitsPerEm

\* the measure a retry leaves: the font the fit loop started at the size resolves,
\* and the text wrapped again with that font
RetriedAt(m, text, font_file, size, variation, line_spacing) ==
  LET fit == FitLoop(LongestWord(Split(text)), font_file, size, variation, MAX_WIDTH)
      lines == WrapLines(Split(text), m.font, MAX_WIDTH)
  IN /\ m.font = fit.font
     /\ FitsAt(LongestWord(Split(text)), font_file, size) => m.font.size = size
     /\ m.font.kind = "truetype" => m.font.size <= size
     /\ m.line_count = Len(lines)
     /\ m.height10 = Len(lines) * FontSizeOr(m.font, fit.max_size) * line_spacing

\* C2 as claimed: after the title's retry the size resolved, measured with and
\* drawn with is 235.
C2_Original ==
  title_size = 235 =>
    /\ FontSizeOr(m_title.font, title_size) = 235
    /\ WasDrawn("Title") => drawn.Title.max_size = 235

\* C2: a first measure of the title of more than 3 lines is followed by one
\* measure started at 255 - 20 = 235, whose fit loop runs again from 235: the
\* font measured and drawn with is the one that loop resolves (size 235 when the
\* longest word fits at 235 with the font files loaded, smaller otherwise), the
\* lines are the text wrapped again with that font, and the row goes on to the
\* definition, with no second retry; a first measure of at most 3 lines is kept.
C2_TitleRetry ==
  /\ [][(pc = "title_retry" /\ pc' = "def") =>
          IF m_title.line_count > 3
            THEN /\ title_size' = 235
                 /\ RetriedAt(m_title', title_text, FONT_FILES.normal, 235, "Bold", 10)
            ELSE title_size' = 255 /\ m_title' = m_title]_vars
  /\ [][pc \notin {"title", "title_retry", "loop"} => (m_title' = m_title /\ title_size' = title_size)]_vars
  /\ [](WasDrawn("Title") =>
          /\ drawn.Title.font = m_title.font
          /\ LinesOf(drawn.Title) = WrapLines(Split(title_text), m_title.font, MAX_WIDTH))

\* a title of 4 lines at 255 drawn in 2 lines at 235
C2_Witness ==
  /\ pc = "save"
  /\ title_size = 235
  /\ m_title.font.size = 235
  /\ Len(drawn.Title.texts) = 2

\* C3 as claimed: after the definition's retry the size resolved, measured with
\* and drawn with is 130.
C3_Original ==
  (def_size = 130 /\ Measured(m_def)) =>
    /\ FontSizeOr(m_def.font, def_size) = 130
    /\ WasDrawn("Definition") => drawn.Definition.max_size = 130

\* C3: a first measure of the definition of more than 5 lines is followed by one
\* measure started at the fixed 130, whose fit loop runs again from 130: the font
\* measured and drawn with is the one that loop resolves (size 130 when the
\* longest word fits at 130 with the font files loaded, smaller otherwise), and
\* the lines are the text wrapped again with that font; a first measure of at
\* most 5 lines is kept.
C3_DefinitionRetry ==
  /\ [][(pc = "def_retry" /\ pc' = "pron") =>
          IF m_def.line_count > 5
            THEN /\ def_size' = 130
                 /\ RetriedAt(m_def', def_text, FONT_FILES.normal, 130, "Medium", 12)
            ELSE def_size' = 157 /\ m_def' = m_def]_vars
  /\ [][pc \notin {"def", "def_retry", "loop"} => (m_def' = m_def /\ def_size' = def_size)]_vars
  /\ [](WasDrawn("Definition") =>
          /\ drawn.Definition.font = m_def.font
          /\ LinesOf(drawn.Definition) = WrapLines(Split(def_text), m_def.font, MAX_WIDTH))

\* a definition of 6 lines at 157 drawn in 3 lines at 130
C3_Witness ==
  /\ pc = "save"
  /\ def_size = 130
  /\ m_def.font.size = 130
  /\ Len(drawn.Definition.texts) = 3

\* the characters a sanitized name keeps
AllowedChar(c) == c \in Letters \cup Digits \cup {" ", "-", "_"}

\* name is the allowed characters of title, in order, without the spaces at
\* both ends
IsSanitized(title, name) ==
  LET kept == SelectSeq(title, AllowedChar) IN
  /\ \E a, b \in 0..Len(kept) :
       /\ a + b <= Len(kept)
       /\ name = SubSeq(kept, a + 1, Len(kept) - b)
       /\ \A i \in 1..a : kept[i] = " "
       /\ \A i \in (Len(kept) - b + 1)..Len(kept) : kept[i] = " "
  /\ name # <<>> => (name[1] # " " /\ name[Len(name)] # " ")

\* a row has been archived and its title is still at hand
RowArchived == pc \in {"loop", "done"} /\ index > 0

\* the name of the last archive entry before its .png suffix
LastName == SubSeq(zip_file[Len(zip_file)], 1, Len(zip_file[Len(zip_file)]) - 4)

\* C5 as claimed: the entry name is the sanitized title, and "Cafe/Bar: #1"
\* (with U+00E9) gives "CafBar 1".
C5_Original ==
  RowArchived =>
    /\ IsSanitized(title_text, LastName)
    /\ title_text = CafeTitle => LastName = <<"C", "a", "f", "B", "a", "r", " ", "1">>

\* C5: the entry name before .png is the title with every character other than
\* alphanumerics (str.isalnum, which holds of U+00E9), space, hyphen and
\* underscore removed, in order, and the spaces at both ends stripped; the title
\* "Cafe/Bar: #1" (with U+00E9) gives "CafeBar 1" (with U+00E9).
C5_Sanitization ==
  RowArchived =>
    /\ IsSanitized(title_text, LastName)
    /\ SubSeq(zip_file[Len(zip_file)], Len(LastName) + 1, Len(LastName) + 4)
         = <<".", "p", "n", "g">>
    /\ title_text = CafeTitle =>
         LastName = <<"C", "a", "f", "eacute", "B", "a", "r", " ", "1">>

\* the title with spaces and a slash around "a-b_" archived as "a-b_"
C5_Witness ==
  /\ RowArchived
  /\ title_text = <<" ", "a", "-", "b", "_", " ", "/">>
  /\ LastName = <<"a", "-", "b", "_">>

\* C6: the total is the three heights and two gaps of 100; when it is no more
\* than the canvas height, start_y + total/2 = height/2 and the space above the
\* title block equals the space below the definition block as drawn; when it is
\* more, start_y is negative and the title is drawn from it as it is.
C6_Centering ==
  LaidOut =>
    /\ total_height10 = m_title.height10 + 1000 + m_pron.height10 + 1000 + m_def.height10
    /\ 2 * start_y10 + total_height10 = 10 * image_height
    /\ WasDrawn("Title") => drawn.Title.y10 = start_y10
    /\ (total_height10 <= 10 * image_height /\ WasDrawn("Definition")) =>
         /\ start_y10 >= 0
         /\ start_y10 = 10 * image_height - drawn.Definition.end_y10
    /\ total_height10 > 10 * image_height =>
         /\ start_y10 < 0
         /\ (WasDrawn("Title") /\ drawn.Title.texts # <<>>) =>
              drawn.Title.texts[1].y10 = start_y10

\* a row of three non-empty blocks that fit the canvas, all drawn
C6_Witness ==
  /\ pc = "save"
  /\ total_height10 <= 10 * image_height
  /\ \A f \in Fields : drawn[f].texts # <<>>
  /\ start_y10 > 0

\* C7: a field of whitespace only (or of nothing) measures 0 lines and height 0,
\* draws nothing, and adds nothing to the total beside the two gaps.
C7_EmptyField ==
  /\ (Measured(m_title) /\ OnlyWhitespace(title_text)) =>
       (m_title.line_count = 0 /\ m_title.height10 = 0)
  /\ (Measured(m_pron) /\ OnlyWhitespace(pron_text)) =>
       (m_pron.line_count = 0 /\ m_pron.height10 = 0)
  /\ (Measured(m_def) /\ OnlyWhitespace(def_text)) =>
       (m_def.line_count = 0 /\ m_def.height10 = 0)
  /\ (WasDrawn("Title") /\ OnlyWhitespace(title_text)) =>
       (drawn.Title.texts = <<>> /\ drawn.Title.end_y10 = drawn.Title.y10)
  /\ (WasDrawn("Pronunciation") /\ OnlyWhitespace(pron_text)) =>
       (drawn.Pronunciation.texts = <<>> /\ drawn.Pronunciation.end_y10 = drawn.Pronunciation.y10)
  /\ (WasDrawn("Definition") /\ OnlyWhitespace(def_text)) =>
       (drawn.Definition.texts = <<>> /\ drawn.Definition.end_y10 = drawn.Definition.y10)
  /\ LaidOut =>
       total_height10 = 2 * 1000
         + (IF OnlyWhitespace(title_text) THEN 0 ELSE m_title.height10)
         + (IF OnlyWhitespace(pron_text) THEN 0 ELSE m_pron.height10)
         + (IF OnlyWhitespace(def_text) THEN 0 ELSE m_def.height10)

\* a row of three fields of whitespace, measured, laid out and drawn
C7_Witness ==
  /\ pc = "save"
  /\ OnlyWhitespace(title_text) /\ OnlyWhitespace(pron_text) /\ OnlyWhitespace(def_text)
  /\ total_height10 = 2000
  /\ \A f \in Fields : WasDrawn(f)

\* C8: a failure in a step of row i ends the batch in the handler, which shows
\* an error; the archive then holds the entries of the rows before i, as they
\* were written, and none for row i; nothing is shown as complete. A font file
\* that does not load is no failure: the default font is measured with.
C8_FailurePropagation ==
  /\ [][(pc \in RowSteps /\ pc' \notin RowSteps) =>
          \/ pc = "save" /\ pc' = "loop" /\ zip_file' # zip_file
          \/ /\ pc' = "error"
             /\ zip_file' = zip_file
             /\ index' = index
             /\ shown' = Append(shown, "An error occurred")]_vars
  /\ [][pc = "error" => pc' = "error"]_vars
  /\ [][\A k \in 1..Len(zip_file) : Len(zip_file') >= k /\ zip_file'[k] = zip_file[k]]_vars
  /\ [](Len(zip_file) = index)
  /\ [](pc = "error" => shown[Len(shown)] = "An error occurred")
  /\ []((Measured(m_title) /\ fontsAvailable = {}) => m_title.font.kind = "default")

\* the second row failed after its title was measured: the first row's entry stays
C8_Witness ==
  /\ pc = "error"
  /\ index = 1
  /\ Len(zip_file) = 1
  /\ Measured(m_title)

\* a field's draw agrees with its measure: the size handed over is the size the
\* draw ends with, the font and the lines are the measured ones, the block
\* starts at y and takes the measured height, its lines evenly spaced
FieldAgrees(text, m, d, start_size, y10) ==
  /\ d.max_size = FontSizeOr(m.font, start_size)
  /\ d.font = m.font
  /\ Len(d.texts) = m.line_count
  /\ LinesOf(d) = WrapLines(Split(text), m.font, MAX_WIDTH)
  /\ d.y10 = y10
  /\ d.end_y10 = y10 + m.height10
  /\ \A i \in 1..Len(d.texts) :
       /\ d.texts[i].y10 * m.line_count = y10 * m.line_count + (i - 1) * m.height10
       /\ d.texts[i].x = 2100

\* C9: each field is drawn as it was measured, and the blocks are stacked title,
\* pronunciation, definition, each starting a gap of 100 below the end of the
\* one before, so that no two overlap.
C9_MeasureDrawAgree ==
  /\ WasDrawn("Title") =>
       FieldAgrees(title_text, m_title, drawn.Title, title_size, start_y10)
  /\ WasDrawn("Pronunciation") =>
       /\ FieldAgrees(pron_text, m_pron, drawn.Pronunciation, 116,
                      drawn.Title.end_y10 + 1000)
       /\ drawn.Title.end_y10 < drawn.Pronunciation.y10
  /\ WasDrawn("Definition") =>
       /\ FieldAgrees(def_text, m_def, drawn.Definition, def_size,
                      drawn.Pronunciation.end_y10 + 1000)
       /\ drawn.Pronunciation.end_y10 < drawn.Definition.y10

\* a row whose three fields were shrunk by the fit loop, the title and the
\* definition after a retry, all drawn
C9_Witness ==
  /\ pc = "save"
  /\ title_size = 235 /\ m_title.font.size < 235 /\ Len(drawn.Title.texts) = 4
  /\ m_pron.font.size < 116 /\ Len(drawn.Pronunciation.texts) = 1
  /\ def_size = 130 /\ m_def.font.size < 130 /\ Len(drawn.Definition.texts) = 6

====
